---- MODULE Spec2Model ----
(***************************************************************************)
(* folly/lang/Exception.cpp: exception_ptr_get_type and                    *)
(* exception_ptr_get_object over the three std::exception_ptr layouts      *)
(* (libstdc++, libc++, msvc crt), with the msvc throw-info encoding probe  *)
(* and its atomic cache.                                                   *)
(*                                                                         *)
(* Addresses are integers.  The program image holds the type descriptors   *)
(* and, for msvc, the ThrowInfo / CatchableTypeArray / CatchableType       *)
(* tables the compiler emits; the heap holds the exception objects and the *)
(* runtime's records.  The throw-info pointer of an EHExceptionRecord is   *)
(* kept with its encoding depth, since the msvc runtime stores it either   *)
(* as is or passed through EncodePointer.                                  *)
(***************************************************************************)
EXTENDS Integers, Sequences, FiniteSets, TLC

\* Number of threads calling into the library.
NThreads == 2

Threads == 1..NThreads

\* nullptr
NULL == 0

Families == {"glibcxx", "libcpp", "win32"}

(***************************************************************************)
(* The thrown types of the program under inspection.  Child derives from   *)
(* Parent (at offset 0) and, virtually, from Mixin; Other is unrelated;    *)
(* int is the type of the probe's sentinel.                                *)
(***************************************************************************)
TypeNames == <<"int", "Child", "Parent", "Mixin", "Other">>

TypeIdx(ty) == CHOOSE i \in 1..Len(TypeNames) : TypeNames[i] = ty

ImageAt(off) == 64 + off

\* The std::type_info object of a type, in the image.
TDOff(ty) == 10 + TypeIdx(ty)

TDAddr(ty) == ImageAt(TDOff(ty))

TypeDescriptors == {TDAddr(TypeNames[i]) : i \in 1..Len(TypeNames)}

TypeName(td) == CHOOSE ty \in {TypeNames[i] : i \in 1..Len(TypeNames)} : TDAddr(ty) = td

\* std::type_info::operator==
TypeInfoEq(a, b) == TypeName(a) = TypeName(b)

(***************************************************************************)
(* The handles the callers hold: an empty std::exception_ptr and one that  *)
(* captured an error.                                                      *)
(***************************************************************************)
Handles == {"hEmpty", "hErr"}

\* The types the captured error may have.
CapturedTypes == {"Child", "Other"}

HeapAt(off) == 200 + off

\* Address of the exception object the non-empty handle refers to.
ObjectAddr == HeapAt(16)

\* Address of its EHExceptionRecord (msvc).
RecAddr == HeapAt(100)

Targets == {NULL} \cup {TDAddr(ty) : ty \in {"Child", "Parent", "Mixin", "Other"}}

(***************************************************************************)
(* msvc: a PMD and the crt's __AdjustPointer.  The vbtable of an object is *)
(* reached through the object; its entry at vdisp is the offset of the     *)
(* virtual base.                                                           *)
(***************************************************************************)
PMD(m, p, v) == [mdisp |-> m, pdisp |-> p, vdisp |-> v]

VbTableEntry(object, pdisp, vdisp) == IF vdisp = 1 THEN 1 ELSE 0

AdjustPointer(object, pmd) ==
    IF pmd.pdisp >= 0
    THEN object + pmd.mdisp + VbTableEntry(object, pmd.pdisp, pmd.vdisp) + pmd.pdisp
    ELSE object + pmd.mdisp

(***************************************************************************)
(* The catchable types the compiler emits for a thrown type, most-derived  *)
(* first, each with the displacement of that subobject.                    *)
(***************************************************************************)
CatchableTypesOf(ty) ==
    CASE ty = "Child" -> <<[type |-> "Child", pmd |-> PMD(0, -1, 0)],
                           [type |-> "Parent", pmd |-> PMD(0, -1, 0)],
                           [type |-> "Mixin", pmd |-> PMD(1, 0, 1)]>>
      [] OTHER -> <<[type |-> ty, pmd |-> PMD(0, -1, 0)]>>

ThrownTypes == {"int", "Child", "Other"}

\* Image offsets of the tables of a thrown type.
TIOff(ty) == 60 + TypeIdx(ty)

CTAOff(ty) == 50 + TypeIdx(ty)

CTOff(ty, i) == 20 + 4 * TypeIdx(ty) + i

(***************************************************************************)
(* The C++ catch rules of the cxxabi runtimes for the same hierarchy: the  *)
(* offset of the subobject of type target in an object of type thrown, or  *)
(* -1 when a thrown object of that type is not caught as target.           *)
(***************************************************************************)
SubobjectOffset(thrown, target) ==
    LET hit == {i \in 1..Len(CatchableTypesOf(thrown)) :
                    CatchableTypesOf(thrown)[i].type = target}
    IN IF hit = {} THEN -1
       ELSE AdjustPointer(0, CatchableTypesOf(thrown)[CHOOSE i \in hit : TRUE].pmd)

VARIABLES
    build,        \* the build and runtime the program runs on (fixed)
    captured,     \* the type of the error hErr captured (fixed)
    handles,      \* handle -> [ptr, refs]: the callers' std::exception_ptr objects
    records,      \* address -> the runtime's internal record of a captured error
    payload,      \* address -> value of the exception object
    cache,        \* win32_eptr_throw_info_ptr_is_encoded's static atomic<int>
    alive,        \* FALSE once assert() has aborted the process
    pc,           \* thread -> "idle" | "probing" (cache read 0, store to come)
    pending,      \* thread -> the call a probing thread is inside
    lastCall,     \* the call that returned last, with what it did
    typeSeen,     \* handle -> what exception_ptr_get_type last returned for it
    probeReturns, \* the booleans the probe has returned so far
    watch,        \* the calls under observation (fixed): all, or one call
    results       \* what the one call under observation has returned so far

vars == <<build, captured, handles, records, payload, cache, alive, pc, pending,
          lastCall, typeSeen, probeReturns, watch, results>>

(***************************************************************************)
(* Builds.  family is the #if branch compiled in; for win32, stl says how  *)
(* this version of the msvc standard library stores the throw-info pointer *)
(* in std::exception_ptr, relative is _EH_RELATIVE_TYPEINFO and ndebug     *)
(* says whether assert() is compiled out.                                  *)
(***************************************************************************)
CxxabiBuilds ==
    [family : {"glibcxx", "libcpp"}, stl : {"plain"}, relative : {FALSE},
     ndebug : {FALSE}]

Win32Builds(stls) ==
    [family : {"win32"}, stl : stls, relative : BOOLEAN, ndebug : BOOLEAN]

\* The msvc standard libraries the code was written for.
KnownStl == {"plain", "encoded"}

\* ... and one that stores the pointer in a form the code does not know.
AnyStl == KnownStl \cup {"unknown"}

(***************************************************************************)
(* DecodePointer / EncodePointer.  A throw-info pointer is [a, k]: the     *)
(* address and how many times it has been passed through EncodePointer.    *)
(* Decoding removes one pass; an address is usable only with k = 0.        *)
(***************************************************************************)
EncodePointer(p) == [p EXCEPT !.k = @ + 1]

win32_decode_pointer(p) == [p EXCEPT !.k = @ - 1]

\* __GetExceptionInfo: the throw-info the compiler emits for a type.
GetExceptionInfo(ty) == [a |-> ImageAt(TIOff(ty)), k |-> 0]

\* The throw-info pointer as the runtime of build b stores it in a record.
StoredThrowInfo(b, ty) ==
    CASE b.stl = "plain" -> GetExceptionInfo(ty)
      [] b.stl = "encoded" -> EncodePointer(GetExceptionInfo(ty))
      [] OTHER -> EncodePointer(EncodePointer(GetExceptionInfo(ty)))

\* sizeof(__cxa_exception): the header sits right before the object.
CxaHeaderAddr(object) == object - 16

\* std::make_exception_ptr / std::current_exception of build b.
InitHandle(b, h) ==
    IF h = "hEmpty" THEN [ptr |-> NULL, refs |-> 0]
    ELSE [ptr |-> IF b.family = "win32" THEN RecAddr ELSE ObjectAddr, refs |-> 1]

\* The record the runtime of build b keeps of a captured error of type ty.
InitRecords(b, ty) ==
    IF b.family = "win32"
    THEN [a \in {RecAddr} |->
            [pExceptionObject |-> ObjectAddr,
             pThrowInfo |-> StoredThrowInfo(b, ty),
             pThrowImageBase |-> IF b.relative THEN ImageAt(0) ELSE NULL]]
    ELSE [a \in {CxaHeaderAddr(ObjectAddr)} |->
            [exceptionType |-> TDAddr(ty), referenceCount |-> 1]]

InitPayload == [a \in {ObjectAddr} |-> 7]

NoOracle == [called |-> FALSE, target |-> NULL, type |-> NULL, object |-> NULL]

NoCall ==
    [op |-> "none", h |-> "hEmpty", target |-> NULL, res |-> NULL,
     fault |-> FALSE, oracle |-> NoOracle, scanned |-> 0, probe |-> "none",
     overwrote |-> FALSE]

\* A call: the entry point and its arguments.
Call(op, h, target) == [op |-> op, h |-> h, target |-> target]

AllCalls == Call("any", "hEmpty", NULL)

EachCall ==
    {Call("get_type", h, NULL) : h \in Handles}
    \cup {Call("get_object", h, target) : h \in Handles, target \in Targets}

InitWith(builds, watched) ==
    /\ build \in builds
    /\ captured \in CapturedTypes
    /\ handles = [h \in Handles |-> InitHandle(build, h)]
    /\ records = InitRecords(build, captured)
    /\ payload = InitPayload
    /\ cache = 0
    /\ alive = TRUE
    /\ pc = [t \in Threads |-> "idle"]
    /\ pending = [t \in Threads |-> NoCall]
    /\ lastCall = NoCall
    /\ typeSeen = [h \in Handles |-> NULL]
    /\ probeReturns = {}
    /\ watch \in watched
    /\ results = {}

Init == InitWith(CxxabiBuilds \cup Win32Builds(KnownStl), {AllCalls})

(***************************************************************************)
(* What a call returns: the value, whether it faulted instead, the         *)
(* arguments the runtime's catch predicate was called with, and how many   *)
(* catchable-type entries were examined.                                   *)
(***************************************************************************)
Ret(res, oracle, scanned) ==
    [res |-> res, fault |-> FALSE, oracle |-> oracle, scanned |-> scanned]

\* A read through a pointer that is no address of the table it is read as:
\* the call may fault, or return whatever the bytes found there yield.
WildOutcomes ==
    {[res |-> NULL, fault |-> TRUE, oracle |-> NoOracle, scanned |-> 0]}
    \cup {Ret(r, NoOracle, 0) : r \in {NULL} \cup TypeDescriptors}

(***************************************************************************)
(* cxxabi (libstdc++ and libc++)                                           *)
(***************************************************************************)

\* The runtime's catch predicate, type_info::__do_catch / __shim_type_info::
\* can_catch: whether a thrown object of type `type` is caught as `target`,
\* with the pointer adjusted to that subobject.
CanCatch(target, type, object) ==
    LET off == SubobjectOffset(TypeName(type), TypeName(target))
    IN [ok |-> off >= 0, adjusted |-> IF off >= 0 THEN object + off ELSE object]

\* std::exception_ptr::__cxa_exception_type()
cxa_exception_type(h) == records[CxaHeaderAddr(handles[h].ptr)].exceptionType

\* As exception_ptr_get_type_glibcxx without the test for an empty handle: the
\* accessor reads the header of a null object.
get_type_glibcxx_unchecked(h) ==
    IF handles[h].ptr = NULL
    THEN [res |-> NULL, fault |-> TRUE, oracle |-> NoOracle, scanned |-> 0]
    ELSE Ret(cxa_exception_type(h), NoOracle, 0)

exception_ptr_get_type_glibcxx(h) ==
    IF handles[h].ptr = NULL THEN Ret(NULL, NoOracle, 0)
    ELSE Ret(cxa_exception_type(h), NoOracle, 0)

exception_ptr_get_object_glibcxx(h, target) ==
    IF handles[h].ptr = NULL THEN Ret(NULL, NoOracle, 0)
    ELSE LET object == handles[h].ptr
             type == cxa_exception_type(h)
         IN IF target = NULL THEN Ret(object, NoOracle, 0)
            ELSE LET c == CanCatch(target, type, object)
                     o == [called |-> TRUE, target |-> target, type |-> type,
                           object |-> object]
                 IN Ret(IF c.ok THEN c.adjusted ELSE NULL, o, 0)

cxxabi_get_object(h) == handles[h].ptr

exception_ptr_get_type_libcpp(h) ==
    IF handles[h].ptr = NULL THEN Ret(NULL, NoOracle, 0)
    ELSE LET object == cxxabi_get_object(h)
             exception == CxaHeaderAddr(object)
         IN Ret(records[exception].exceptionType, NoOracle, 0)

\* As exception_ptr_get_object_libcpp with can_catch called on the thrown type
\* for the target, the two descriptors exchanged.
get_object_libcpp_swapped(h, target) ==
    IF handles[h].ptr = NULL THEN Ret(NULL, NoOracle, 0)
    ELSE LET object == cxxabi_get_object(h)
             type == exception_ptr_get_type_libcpp(h).res
         IN IF target = NULL THEN Ret(object, NoOracle, 0)
            ELSE LET c == CanCatch(type, target, object)
                     o == [called |-> TRUE, target |-> type, type |-> target,
                           object |-> object]
                 IN Ret(IF c.ok THEN c.adjusted ELSE NULL, o, 0)

exception_ptr_get_object_libcpp(h, target) ==
    IF handles[h].ptr = NULL THEN Ret(NULL, NoOracle, 0)
    ELSE LET object == cxxabi_get_object(h)
             type == exception_ptr_get_type_libcpp(h).res
         IN IF target = NULL THEN Ret(object, NoOracle, 0)
            ELSE LET c == CanCatch(target, type, object)
                     o == [called |-> TRUE, target |-> target, type |-> type,
                           object |-> object]
                 IN Ret(IF c.ok THEN c.adjusted ELSE NULL, o, 0)

(***************************************************************************)
(* win32                                                                   *)
(***************************************************************************)

\* The image's tables.  A field is an image-relative offset under
\* _EH_RELATIVE_TYPEINFO (rel) and an address otherwise.
FieldRef(rel, off) == IF rel THEN off ELSE ImageAt(off)

ThrowInfoTable ==
    [rel \in BOOLEAN |->
        [a \in {ImageAt(TIOff(ty)) : ty \in ThrownTypes} |->
            LET ty == CHOOSE x \in ThrownTypes : a = ImageAt(TIOff(x))
            IN [pCatchableTypeArray |-> FieldRef(rel, CTAOff(ty))]]]

CTATable ==
    [rel \in BOOLEAN |->
        [a \in {ImageAt(CTAOff(ty)) : ty \in ThrownTypes} |->
            LET ty == CHOOSE x \in ThrownTypes : a = ImageAt(CTAOff(x))
                n == Len(CatchableTypesOf(ty))
            IN [nCatchableTypes |-> n,
                arrayOfCatchableTypes |->
                    [i \in 0..(n - 1) |-> FieldRef(rel, CTOff(ty, i))]]]]

CTEntries ==
    {<<ty, i>> \in ThrownTypes \X (0..2) : i < Len(CatchableTypesOf(ty))}

CTTable ==
    [rel \in BOOLEAN |->
        [a \in {ImageAt(CTOff(e[1], e[2])) : e \in CTEntries} |->
            LET e == CHOOSE x \in CTEntries : a = ImageAt(CTOff(x[1], x[2]))
                c == CatchableTypesOf(e[1])[e[2] + 1]
            IN [pType |-> FieldRef(rel, TDOff(c.type)),
                thisDisplacement |-> c.pmd]]]

\* Reads of the image at an address.
IsThrowInfo(p) == p.k = 0 /\ p.a \in DOMAIN ThrowInfoTable[build.relative]

ThrowInfoMem(p) == ThrowInfoTable[build.relative][p.a]

IsCTA(a) == a \in DOMAIN CTATable[build.relative]

CTAMem(a) == CTATable[build.relative][a]

IsCT(a) == a \in DOMAIN CTTable[build.relative]

CTMem(a) == CTTable[build.relative][a]

win32_get_record(h) == handles[h].ptr

\* Lines 195-204: the value the probe computes from the sentinel's record.
ProbeValue ==
    LET info == GetExceptionInfo("int")
        recInfo == StoredThrowInfo(build, "int")
        v1 == IF info = recInfo THEN -1 ELSE 0
    IN IF info = win32_decode_pointer(recInfo) THEN 1 ELSE v1

\* As win32_throw_info returning the stored pointer whatever the probe says.
throw_info_undecoded(rec, encoded) == records[rec].pThrowInfo

win32_throw_info(rec, encoded) ==
    LET info == records[rec].pThrowInfo
    IN IF encoded THEN win32_decode_pointer(info) ELSE info

win32_throw_image_base(rec) ==
    IF build.relative THEN records[rec].pThrowImageBase ELSE 0

\* As win32_reaches_throw_info with win32_throw_info called before the test of
\* the target.
reaches_throw_info_eagerly(op, h, target) == win32_get_record(h) # NULL

\* Whether the call gets as far as win32_throw_info, and so to the probe.
win32_reaches_throw_info(op, h, target) ==
    IF op = "get_type" THEN win32_get_record(h) # NULL
    ELSE win32_get_record(h) # NULL /\ target # NULL

\* As most_derived_index taking the last entry for the most-derived type.
last_index(cta) == CTAMem(cta).nCatchableTypes - 1

\* Line 237: the compiler emits the most-derived type first.
most_derived_index(cta) == 0

\* The outcomes of exception_ptr_get_type, `encoded` being the probe's answer
\* (not asked for when the handle is empty).
exception_ptr_get_type_win32(h, encoded) ==
    LET rec == win32_get_record(h)
    IN IF rec = NULL THEN {Ret(NULL, NoOracle, 0)}
       ELSE LET base == win32_throw_image_base(rec)
                info == win32_throw_info(rec, encoded)
            IN IF ~IsThrowInfo(info) THEN WildOutcomes
               ELSE LET cta == base + ThrowInfoMem(info).pCatchableTypeArray
                    IN IF ~IsCTA(cta) \/ CTAMem(cta).nCatchableTypes < 1
                       THEN WildOutcomes
                       ELSE LET ct == base + CTAMem(cta).arrayOfCatchableTypes[
                                                most_derived_index(cta)]
                            IN IF ~IsCT(ct) THEN WildOutcomes
                               ELSE {Ret(base + CTMem(ct).pType, NoOracle, 0)}

\* As win32_scan returning the object as it is, thisDisplacement not applied.
RECURSIVE scan_unadjusted(_, _, _, _, _)
scan_unadjusted(cta, base, object, target, i) ==
    IF i >= CTAMem(cta).nCatchableTypes THEN {Ret(NULL, NoOracle, i)}
    ELSE LET ct == base + CTAMem(cta).arrayOfCatchableTypes[i]
         IN IF ~IsCT(ct) \/ (base + CTMem(ct).pType) \notin TypeDescriptors
            THEN WildOutcomes
            ELSE IF TypeInfoEq(target, base + CTMem(ct).pType)
                 THEN {Ret(object, NoOracle, i + 1)}
                 ELSE scan_unadjusted(cta, base, object, target, i + 1)

\* Lines 260-269: the loop over the catchable types, from entry i on.
RECURSIVE win32_scan(_, _, _, _, _)
win32_scan(cta, base, object, target, i) ==
    IF i >= CTAMem(cta).nCatchableTypes THEN {Ret(NULL, NoOracle, i)}
    ELSE LET ct == base + CTAMem(cta).arrayOfCatchableTypes[i]
         IN IF ~IsCT(ct) \/ (base + CTMem(ct).pType) \notin TypeDescriptors
            THEN WildOutcomes
            ELSE IF TypeInfoEq(target, base + CTMem(ct).pType)
                 THEN {Ret(AdjustPointer(object, CTMem(ct).thisDisplacement),
                           NoOracle, i + 1)}
                 ELSE win32_scan(cta, base, object, target, i + 1)

exception_ptr_get_object_win32(h, target, encoded) ==
    LET rec == win32_get_record(h)
    IN IF rec = NULL THEN {Ret(NULL, NoOracle, 0)}
       ELSE LET object == records[rec].pExceptionObject
            IN IF target = NULL THEN {Ret(object, NoOracle, 0)}
               ELSE LET base == win32_throw_image_base(rec)
                        info == win32_throw_info(rec, encoded)
                    IN IF ~IsThrowInfo(info) THEN WildOutcomes
                       ELSE LET cta == base + ThrowInfoMem(info).pCatchableTypeArray
                            IN IF ~IsCTA(cta) THEN WildOutcomes
                               ELSE win32_scan(cta, base, object, target, 0)

(***************************************************************************)
(* The calls.  exception_ptr_get_type and exception_ptr_get_object take    *)
(* the handle by const reference and copy the pointer out of it (lines     *)
(* 129, 139, 177, 252): the handle is left as it was.                      *)
(***************************************************************************)
\* As handle_after_call with `object` bound to the handle's pointer instead of
\* copied from it: the adjustment lands in the handle.
handle_after_call_aliased(h, ret) ==
    IF ret.res # NULL THEN [handles[h] EXCEPT !.ptr = ret.res] ELSE handles[h]

handle_after_call(h, ret) == handles[h]

\* The call (op, h, target) of thread t returns ret; probe says what the call
\* did with the probe: "none" (not called), "hit" (cache set), "ran"; and
\* overwrote, whether its store found the cache already set.
Return(t, op, h, target, ret, probe, overwrote) ==
    /\ lastCall' = IF watch \in {AllCalls, Call(op, h, target)}
                   THEN [op |-> op, h |-> h, target |-> target, res |-> ret.res,
                         fault |-> ret.fault, oracle |-> ret.oracle,
                         scanned |-> ret.scanned, probe |-> probe,
                         overwrote |-> overwrote]
                   ELSE lastCall
    /\ results' = IF watch = Call(op, h, target)
                  THEN results \cup {[res |-> ret.res, fault |-> ret.fault,
                                      probe |-> probe]}
                  ELSE results
    /\ typeSeen' = IF op = "get_type" /\ ~ret.fault
                   THEN [typeSeen EXCEPT ![h] = ret.res] ELSE typeSeen
    /\ handles' = [handles EXCEPT ![h] = handle_after_call(h, ret)]
    /\ alive' = ~ret.fault
    /\ pc' = [pc EXCEPT ![t] = "idle"]
    /\ pending' = [pending EXCEPT ![t] = NoCall]
    /\ UNCHANGED <<build, captured, records, payload, watch>>

\* As cached_answer returning the cached int itself as the bool.
cached_answer_nonzero(value) == value # 0

\* Line 191: the answer on the cached path.
cached_answer(value) == value > 0

\* As computed_answer returning whether the probe decided at all.
computed_answer_nonzero(value) == value # 0

\* Line 209: the answer of the probe that computed the value.
computed_answer(value) == value > 0

\* The outcomes of a win32 call once the probe's answer is known.
win32_outcomes(op, h, target, encoded) ==
    IF op = "get_type" THEN exception_ptr_get_type_win32(h, encoded)
    ELSE exception_ptr_get_object_win32(h, target, encoded)

\* Up to win32_eptr_throw_info_ptr_is_encoded's load of the cache (line 190):
\* the call returns at once unless the cache still reads 0.
win32_call(t, op, h, target) ==
    IF ~win32_reaches_throw_info(op, h, target)
    THEN /\ \E ret \in win32_outcomes(op, h, target, FALSE) :
                Return(t, op, h, target, ret, "none", FALSE)
         /\ UNCHANGED <<cache, probeReturns>>
    ELSE IF cache # 0
         THEN /\ \E ret \in win32_outcomes(op, h, target, cached_answer(cache)) :
                    Return(t, op, h, target, ret, "hit", FALSE)
              /\ probeReturns' = probeReturns \cup {cached_answer(cache)}
              /\ UNCHANGED cache
         ELSE /\ pc' = [pc EXCEPT ![t] = "probing"]
              /\ pending' = [pending EXCEPT ![t] =
                                [NoCall EXCEPT !.op = op, !.h = h, !.target = target]]
              /\ UNCHANGED <<build, captured, handles, records, payload, cache, alive,
                             lastCall, typeSeen, probeReturns, watch, results>>

GetType(t, h) ==
    /\ alive
    /\ pc[t] = "idle"
    /\ CASE build.family = "glibcxx" ->
              /\ Return(t, "get_type", h, NULL, exception_ptr_get_type_glibcxx(h), "none", FALSE)
              /\ UNCHANGED <<cache, probeReturns>>
         [] build.family = "libcpp" ->
              /\ Return(t, "get_type", h, NULL, exception_ptr_get_type_libcpp(h), "none", FALSE)
              /\ UNCHANGED <<cache, probeReturns>>
         [] OTHER -> win32_call(t, "get_type", h, NULL)

GetObject(t, h, target) ==
    /\ alive
    /\ pc[t] = "idle"
    /\ CASE build.family = "glibcxx" ->
              /\ Return(t, "get_object", h, target,
                        exception_ptr_get_object_glibcxx(h, target), "none", FALSE)
              /\ UNCHANGED <<cache, probeReturns>>
         [] build.family = "libcpp" ->
              /\ Return(t, "get_object", h, target,
                        exception_ptr_get_object_libcpp(h, target), "none", FALSE)
              /\ UNCHANGED <<cache, probeReturns>>
         [] OTHER -> win32_call(t, "get_object", h, target)

\* The rest of win32_eptr_throw_info_ptr_is_encoded after a load of 0 (lines
\* 195-209): compute the value, assert it, store it, return it; then the rest
\* of the call.  assert() aborts the process unless NDEBUG compiles it out.
ProbeStore(t) ==
    /\ alive
    /\ pc[t] = "probing"
    /\ LET value == ProbeValue
       IN IF value = 0 /\ ~build.ndebug
          THEN /\ alive' = FALSE
               /\ UNCHANGED <<build, captured, handles, records, payload, cache, pc,
                              pending, lastCall, typeSeen, probeReturns, watch,
                              results>>
          ELSE /\ cache' = value
               /\ probeReturns' = probeReturns \cup {computed_answer(value)}
               /\ \E ret \in win32_outcomes(pending[t].op, pending[t].h,
                                            pending[t].target, computed_answer(value)) :
                      Return(t, pending[t].op, pending[t].h, pending[t].target,
                             ret, "ran", cache # 0)

Next ==
    \/ \E t \in Threads, h \in Handles : GetType(t, h)
    \/ \E t \in Threads, h \in Handles, target \in Targets : GetObject(t, h, target)
    \/ \E t \in Threads : ProbeStore(t)

Spec == Init /\ [][Next]_vars

\* The same program on any msvc standard library, known to the code or not.
InitAnyStl == InitWith(Win32Builds(AnyStl), {AllCalls})

SpecAnyStl == InitAnyStl /\ [][Next]_vars

\* The same program with one call under observation.
InitWatch == InitWith(CxxabiBuilds \cup Win32Builds(KnownStl), EachCall)

SpecWatch == InitWatch /\ [][Next]_vars

(***************************************************************************)
(* Properties                                                              *)
(***************************************************************************)

\* A call has returned and is on record.
Returned(op) == lastCall.op = op

Empty(h) == handles[h].ptr = NULL

\* C1: in every family decoder, for an empty handle exception_ptr_get_type
\* returns null and exception_ptr_get_object returns null for every target,
\* the null target included, and neither call faults.
C1_EmptyHandleNull ==
    (lastCall.op \in {"get_type", "get_object"} /\ Empty(lastCall.h))
        => (lastCall.res = NULL /\ ~lastCall.fault /\ alive)

\* An empty handle was asked for its object as a non-null target.
C1_Witness ==
    /\ Returned("get_object")
    /\ Empty(lastCall.h)
    /\ lastCall.target # NULL
    /\ lastCall.res = NULL

\* C2: when the threads call the probe concurrently on first use, every call of
\* it returns the same boolean, the cache ends at one single non-zero value
\* (-1 or +1) once a call of the probe has returned, and once non-zero the
\* cache never changes again.
C2_ProbeConsistent ==
    [][/\ Cardinality(probeReturns') <= 1
       /\ probeReturns' # {} => cache' \in {-1, 1}
       /\ probeReturns' # {} => probeReturns' = {cache' > 0}
       /\ cache # 0 => cache' = cache]_vars

\* Two threads raced on first use: a probe that had read 0 stored over the
\* value another thread had stored meanwhile.
C2_Witness ==
    /\ lastCall.probe = "ran"
    /\ lastCall.overwrote
    /\ cache # 0

\* C3: when the sentinel's throw-info field equals neither the compiler's
\* throw-info address nor its decoding, the probe terminates the process: it
\* stores nothing in the cache and returns no boolean.
C3_ProbeFatal ==
    [][\A t \in Threads :
          (ProbeValue = 0 /\ ProbeStore(t))
              => (~alive' /\ probeReturns' = probeReturns /\ pc'[t] = "probing")]_vars

\* The catchable types of the captured error, as the compiler lists them.
CapturedList == CatchableTypesOf(captured)

\* The entries of that list whose type is the target's.
Matches(target) ==
    {i \in 1..Len(CapturedList) : CapturedList[i].type = TypeName(target)}

First(S) == CHOOSE i \in S : \A j \in S : i <= j

Win32Object(target) ==
    /\ build.family = "win32"
    /\ Returned("get_object")
    /\ ~Empty(lastCall.h)
    /\ lastCall.target = target

\* C4: in the Windows-style decoder, for a non-empty handle and a non-null
\* target, exception_ptr_get_object examines the catchable-type entries in
\* index order and returns the payload pointer adjusted by the displacement of
\* the first entry whose descriptor equals the target; it returns null exactly
\* when no entry's descriptor equals the target, having examined them all.
C4_FirstMatchAdjusted ==
    \A target \in Targets \ {NULL} :
        Win32Object(target) =>
            /\ ~lastCall.fault
            /\ IF Matches(target) = {}
               THEN lastCall.res = NULL /\ lastCall.scanned = Len(CapturedList)
               ELSE /\ lastCall.res =
                        AdjustPointer(ObjectAddr,
                                      CapturedList[First(Matches(target))].pmd)
                    /\ lastCall.res # NULL
                    /\ lastCall.scanned = First(Matches(target))

\* The target was found past entry 0, at a subobject displaced in the object.
C4_Witness ==
    /\ Win32Object(TDAddr("Mixin"))
    /\ lastCall.scanned = 3
    /\ lastCall.res = ObjectAddr + 2

\* C5: in the Windows-style decoder, on a runtime that stores the throw-info
\* pointer encoded or plain, exception_ptr_get_type of a non-empty handle
\* returns the descriptor of entry 0 of the captured error's catchable types,
\* its exact dynamic type, the stored pointer being decoded if and only if the
\* probe reports 'encoded', which it does exactly on the encoding runtime.
C5_TypeIsDynamicType ==
    (/\ build.family = "win32"
     /\ build.stl \in KnownStl
     /\ Returned("get_type")
     /\ ~Empty(lastCall.h))
        => /\ ~lastCall.fault
           /\ lastCall.res = TDAddr(CapturedList[1].type)
           /\ lastCall.res = TDAddr(captured)
           /\ probeReturns = {build.stl = "encoded"}

\* The type was read on an encoding runtime by the call that ran the probe.
C5_Witness ==
    /\ build.family = "win32"
    /\ build.stl = "encoded"
    /\ Returned("get_type")
    /\ ~Empty(lastCall.h)
    /\ lastCall.probe = "ran"
    /\ lastCall.res = TDAddr(captured)

CxxabiObject ==
    /\ build.family \in {"glibcxx", "libcpp"}
    /\ Returned("get_object")
    /\ ~Empty(lastCall.h)
    /\ lastCall.target # NULL

\* C6: in the two cxxabi decoders, for a non-empty handle and a non-null
\* target, exception_ptr_get_object calls the runtime's catch predicate on the
\* target with the handle's dynamic type descriptor and a copy of the stored
\* payload pointer, and returns the pointer as the predicate adjusted it when
\* the predicate reports catchable, null otherwise.
C6_OracleDecides ==
    CxxabiObject =>
        LET c == CanCatch(lastCall.target, TDAddr(captured), ObjectAddr)
        IN /\ lastCall.oracle = [called |-> TRUE, target |-> lastCall.target,
                                 type |-> TDAddr(captured), object |-> ObjectAddr]
           /\ lastCall.res = IF c.ok THEN c.adjusted ELSE NULL
           /\ ~lastCall.fault

\* The predicate adjusted the pointer to a displaced base.
C6_Witness ==
    /\ CxxabiObject
    /\ build.family = "libcpp"
    /\ lastCall.target = TDAddr("Mixin")
    /\ lastCall.res = ObjectAddr + 2

\* C7: in every family decoder, exception_ptr_get_object on a non-empty handle
\* with a null target returns the stored payload pointer unchanged, without
\* calling the catch predicate, without examining a catchable-type entry or
\* applying a displacement, and, in the Windows-style decoder, without calling
\* the probe or writing its cache.
C7_NullTargetRaw ==
    (Returned("get_object") /\ ~Empty(lastCall.h) /\ lastCall.target = NULL)
        => /\ lastCall.res = ObjectAddr
           /\ ~lastCall.fault
           /\ ~lastCall.oracle.called
           /\ lastCall.scanned = 0
           /\ lastCall.probe = "none"
           /\ ~lastCall.overwrote

\* The Windows-style decoder returned the raw pointer with the cache unknown.
C7_Witness ==
    /\ build.family = "win32"
    /\ Returned("get_object")
    /\ ~Empty(lastCall.h)
    /\ lastCall.target = NULL
    /\ lastCall.res = ObjectAddr
    /\ cache = 0

\* C8: repeated calls of exception_ptr_get_type, and of
\* exception_ptr_get_object with the same target, on the same handle return
\* equal results every time, from whichever thread, whether the call found the
\* probe cache unknown and ran the probe or found it set.
C8_Idempotent ==
    \A r1, r2 \in results : r1.res = r2.res /\ r1.fault = r2.fault /\ ~r1.fault

\* The same call returned once after running the probe, once from the cache.
C8_Witness ==
    /\ watch.op = "get_object"
    /\ \E r1, r2 \in results : r1.probe = "ran" /\ r2.probe = "hit"

\* C9: the calls leave the caller's handle (its pointer and reference count),
\* the runtime's record and the payload unchanged; of the state the calls
\* share, only the probe's cache is written.
C9_HandleUntouched ==
    [][handles' = handles /\ records' = records /\ payload' = payload]_vars

\* A call returned a pointer adjusted away from the one the handle stores.
C9_Witness ==
    /\ Returned("get_object")
    /\ lastCall.res = ObjectAddr + 2
    /\ handles = [h \in Handles |-> InitHandle(build, h)]

\* C10: in the Windows-style decoder, for a non-empty handle,
\* exception_ptr_get_object called with the descriptor exception_ptr_get_type
\* returned for that handle is non-null and equals the payload pointer adjusted
\* by entry 0's displacement: the type is found, and at entry 0.
C10_TypeRoundTrip ==
    (/\ typeSeen["hErr"] # NULL
     /\ Win32Object(typeSeen["hErr"]))
        => /\ lastCall.res # NULL
           /\ lastCall.res = AdjustPointer(ObjectAddr, CapturedList[1].pmd)
           /\ lastCall.scanned = 1
           /\ ~lastCall.fault

\* The type exception_ptr_get_type reported was looked up and found.
C10_Witness ==
    /\ typeSeen["hErr"] = TDAddr("Child")
    /\ Win32Object(typeSeen["hErr"])
    /\ lastCall.res = ObjectAddr
====
